---- MODULE Spec2Model ----
(***************************************************************************)
(* Model of the report-generation control loop of src/app.py: the length   *)
(* budgeter, the output validator and the per-item retry loop with its     *)
(* batch driver.                                                           *)
(*                                                                         *)
(* Text is a sequence of Unicode code points.  A JSON object is a sequence *)
(* of [k, v] pairs in insertion order (a Python dict).  A JSON value is    *)
(* one of [t |-> "str", s], [t |-> "null"], [t |-> "list", items]; the     *)
(* generated values considered are strings, nulls and lists of strings.    *)
(*                                                                         *)
(* Language names are written in ASCII: "TraditionalChinese" stands for    *)
(* the first entry of the language select box, "Japanese", "Korean" and    *)
(* "Vietnamese" for the third, fourth and fifth.                           *)
(***************************************************************************)
EXTENDS Integers, Sequences, FiniteSets, TLC

VARIABLES
    lang,                 \* selected output language
    word_limit,           \* the hard budget (st.number_input)
    items,                \* flagged item names, in scan order
    filename,             \* name of the uploaded file
    notices,              \* st.warning calls made before the item loop
    application_id,       \* identifier parsed from the file name, "" if none
    records,              \* rows read from the sheet
    matched_row,          \* the row of the application, or None
    personal_history,     \* personal medical history shown and sent
    lifestyle_habits,     \* smoking, drinking and betel nut status, "" if unknown
    index,                \* index of the current item (0-based)
    pc,                   \* position of the batch driver
    attempt,              \* loop variable of "for attempt in range(3)"
    generation_limit,     \* the target length fed to the prompt
    budget_hint,          \* formatted per-section ceilings
    section_min,          \* per-section minimum stated in the prompt
    full_combined_prompt, \* the prompt handed to generate_content
    report,               \* accepted candidate, or None
    failure_reason,       \* reason recorded by the last validated attempt
    output_length,        \* measured length recorded by the last validation
    final_text,           \* accumulated output text
    warnings,             \* st.warning calls of the batch driver
    progress,             \* progress_bar value: number of items finished
    delivered,            \* what st.text_area / st.download_button received
    error,                \* TRUE once the top-level except has fired
    calls,                \* generate_content invocations made for the current item
    log,                  \* per-item record of the attempts made so far
    arg,                  \* input of the pure function under check
    result                \* its result

vars == <<lang, word_limit, items, filename, notices, application_id, records, matched_row,
          personal_history, lifestyle_habits, index, pc, attempt, generation_limit,
          budget_hint, section_min, full_combined_prompt, report,
          failure_reason, output_length, final_text, warnings, progress,
          delivered, error, calls, log, arg, result>>

---------------------------------------------------------------------------
(* Bounds                                                                  *)

MaxItems == 2
SmallLimit == 120
MaxBudgetW == 400
MaxScored == 3

(* Program constants                                                       *)

MaxAttempts == 3
DefaultLimit == 800
RuleWidth == 50
MinShrink == 10
MinSection == 20
threshold_low == 30
threshold_std == 37

\* JSON null / Python None as a value
None == [t |-> "null"]

Max(a, b) == IF a >= b THEN a ELSE b
Min(a, b) == IF a <= b THEN a ELSE b

---------------------------------------------------------------------------
(* Text                                                                    *)

Languages == {"TraditionalChinese", "English", "Japanese", "Korean", "Vietnamese"}

\* Python's Unicode whitespace: what \S does not match and str.strip removes.
IsSpace(c) ==
    \/ c = 32
    \/ c \in 9..13
    \/ c \in 28..31
    \/ c \in {133, 160, 5760}
    \/ c \in 8192..8202
    \/ c \in {8232, 8233, 8239, 8287, 12288}

\* [\u4e00-\u9fff]
IsCJK(c) == c \in 19968..40959
\* [\u3040-\u30ff]
IsKana(c) == c \in 12352..12543
\* [\uac00-\ud7af]
IsHangul(c) == c \in 44032..55215
\* [A-Za-z\u00c0-\u1ef9]
IsLatinOrAccented(c) == c \in 65..90 \/ c \in 97..122 \/ c \in 192..7929


\* is_language_valid with the Kana range left out of the English pattern
is_language_valid_no_kana(text, l) ==
    CASE l = "English" -> ~(\E i \in DOMAIN text : IsCJK(text[i]))
      [] l = "TraditionalChinese" -> ~(\E i \in DOMAIN text : IsKana(text[i]))
      [] l = "Japanese" -> (\E i \in DOMAIN text : IsKana(text[i]))
      [] l = "Korean" -> (\E i \in DOMAIN text : IsHangul(text[i]))
      [] l = "Vietnamese" -> (\E i \in DOMAIN text : IsLatinOrAccented(text[i]))
      [] OTHER -> TRUE

is_language_valid(text, l) ==
    CASE l = "English" -> ~(\E i \in DOMAIN text : IsCJK(text[i]) \/ IsKana(text[i]))
      [] l = "TraditionalChinese" -> ~(\E i \in DOMAIN text : IsKana(text[i]))
      [] l = "Japanese" -> (\E i \in DOMAIN text : IsKana(text[i]))
      [] l = "Korean" -> (\E i \in DOMAIN text : IsHangul(text[i]))
      [] l = "Vietnamese" -> (\E i \in DOMAIN text : IsLatinOrAccented(text[i]))
      [] OTHER -> TRUE

count_output_length(text) == Cardinality({i \in DOMAIN text : ~IsSpace(text[i])})

\* index of the first non-space character at or after i, Len(text) + 1 if none
RECURSIVE first_kept(_, _)
first_kept(text, i) ==
    IF i > Len(text) THEN i
    ELSE IF IsSpace(text[i]) THEN first_kept(text, i + 1)
    ELSE i

\* index of the last non-space character at or before i, 0 if none
RECURSIVE last_kept(_, _)
last_kept(text, i) ==
    IF i < 1 THEN 0
    ELSE IF IsSpace(text[i]) THEN last_kept(text, i - 1)
    ELSE i

\* str.strip()
strip(text) == SubSeq(text, first_kept(text, 1), last_kept(text, Len(text)))

\* sep.join(parts)
RECURSIVE join(_, _)
join(sep, parts) ==
    IF parts = <<>> THEN <<>>
    ELSE IF Len(parts) = 1 THEN parts[1]
    ELSE parts[1] \o sep \o join(sep, Tail(parts))

normalize_report_value(value) ==
    CASE value.t = "null" -> <<>>
      [] value.t = "list" -> IF value.items = <<>> THEN <<>> ELSE join(<<32>>, value.items)
      [] OTHER -> value.s

min_section_length(w) == Max(MinSection, (w * 3) \div 100)

---------------------------------------------------------------------------
(* JSON objects                                                            *)

required_keys == <<"maintenance", "tracking", "nutrition", "supplements", "lifestyle">>

\* dict.get(key): the value stored under key, None when the key is absent
get(d, key) ==
    IF \E i \in DOMAIN d : d[i].k = key
    THEN d[CHOOSE i \in DOMAIN d : d[i].k = key].v
    ELSE None

\* dict.values()
values(d) == [i \in DOMAIN d |-> d[i].v]

\* A failure reason: the message template (code), the section it names, and
\* the two numbers embedded in the "exceeds limit" message.
Reason(code, key, length, limit) == [code |-> code, key |-> key, length |-> length, limit |-> limit]
NoReason == Reason("", "", 0, 0)

\* the (valid, reason, length) triple returned by validate_report_output
Verdict(valid, reason, length) == [valid |-> valid, reason |-> reason, length |-> length]

\* combined_text: the values of every key of the object, joined by spaces
combined(rep) == join(<<32>>, [i \in DOMAIN rep |-> normalize_report_value(values(rep)[i])])


\* section_check without the emptiness test: an empty section is "short"
section_check_no_empty(rep, key, w) ==
    IF count_output_length(strip(normalize_report_value(get(rep, key)))) < min_section_length(w)
    THEN "short"
    ELSE "ok"

\* the body of "for key in required_keys" for one key: which return it takes
section_check(rep, key, w) ==
    LET section_text == strip(normalize_report_value(get(rep, key)))
    IN  IF section_text = <<>> THEN "empty"
        ELSE IF count_output_length(section_text) < min_section_length(w) THEN "short"
        ELSE "ok"

\* first_failure looking for an empty section among all keys before it
\* looks for a short one
first_failure_empties_first(rep, w, i) ==
    LET empties == {j \in i..Len(required_keys) :
                      section_check(rep, required_keys[j], w) = "empty"}
        failing == {j \in i..Len(required_keys) :
                      section_check(rep, required_keys[j], w) # "ok"}
    IN  IF empties # {} THEN CHOOSE j \in empties : \A k \in empties : j <= k
        ELSE IF failing # {} THEN CHOOSE j \in failing : \A k \in failing : j <= k
        ELSE 0

\* "for key in required_keys" from the i-th key on: the index of the first
\* key whose pass returns, 0 when the loop runs to its end
RECURSIVE first_failure(_, _, _)
first_failure(rep, w, i) ==
    IF i > Len(required_keys) THEN 0
    ELSE IF section_check(rep, required_keys[i], w) # "ok" THEN i
    ELSE first_failure(rep, w, i + 1)


\* validate_report_output with the two numbers of the "exceeds limit"
\* message in the wrong order
validate_report_output_swapped(rep, l, w) ==
    LET length == count_output_length(combined(rep))
        failed == first_failure(rep, w, 1)
    IN  IF ~is_language_valid(combined(rep), l)
        THEN Verdict(FALSE, Reason("language_mismatch", "", 0, 0), length)
        ELSE IF failed # 0
        THEN Verdict(FALSE, Reason(section_check(rep, required_keys[failed], w),
                                   required_keys[failed], 0, 0), length)
        ELSE IF length > w
        THEN Verdict(FALSE, Reason("exceeds_limit", "", w, length), length)
        ELSE Verdict(TRUE, NoReason, length)

validate_report_output(rep, l, w) ==
    LET length == count_output_length(combined(rep))
        failed == first_failure(rep, w, 1)
    IN  IF ~is_language_valid(combined(rep), l)
        THEN Verdict(FALSE, Reason("language_mismatch", "", 0, 0), length)
        ELSE IF failed # 0
        THEN Verdict(FALSE, Reason(section_check(rep, required_keys[failed], w),
                                   required_keys[failed], 0, 0), length)
        ELSE IF length > w
        THEN Verdict(FALSE, Reason("exceeds_limit", "", length, w), length)
        ELSE Verdict(TRUE, NoReason, length)

---------------------------------------------------------------------------
(* Length budgeter                                                         *)

\* weights, as percentages, in the insertion order of the weights dict
weights == <<20, 15, 20, 20, 25>>

SumSeq(s) ==
    LET RECURSIVE sum(_)
        sum(k) == IF k = 0 THEN 0 ELSE s[k] + sum(k - 1)
    IN  sum(Len(s))

\* the budget after the first n passes of "for key in ordered_keys[:-1]"
RECURSIVE allocations(_, _)
allocations(w, n) ==
    IF n = 0 THEN <<>>
    ELSE LET budget == allocations(w, n - 1)
             remaining == w - SumSeq(budget)
             allocation == Min(Max(1, (w * weights[n]) \div 100), remaining)
         IN  Append(budget, allocation)


\* build_length_budget giving the last key its weighted share instead of
\* the remainder
build_length_budget_weighted_last(w) ==
    Append(allocations(w, 4), Max(1, (w * weights[5]) \div 100))

build_length_budget(w) ==
    LET head == allocations(w, 4)
        remaining == w - SumSeq(head)
    IN  Append(head, Max(1, remaining))

\* the hint lists the five ceilings in the order of required_keys
format_budget_hint(budget) ==
    [i \in 1..5 |-> [k |-> required_keys[i], max |-> budget[i]]]

---------------------------------------------------------------------------
(* Rendering                                                               *)

\* str(n) for n >= 0
RECURSIVE digits(_)
digits(n) == IF n < 10 THEN <<48 + n>> ELSE digits(n \div 10) \o <<48 + (n % 10)>>

\* format_output: a list becomes numbered lines, anything else str(..).strip()
format_output(content) ==
    CASE content.t = "list" ->
            join(<<10>>, [idx \in DOMAIN content.items |->
                              digits(idx) \o <<46, 32>> \o content.items[idx]])
      [] content.t = "null" -> <<78, 111, 110, 101>>
      [] OTHER -> strip(content.s)

Token(kind, item, key, text) == [kind |-> kind, item |-> item, key |-> key, text |-> text]

\* "=" * 50
rule == [i \in 1..RuleWidth |-> 61]

\* render_section without the closing line of "="
render_section_no_rule(item, rep) ==
    <<Token("intro", item, "", <<>>)>>
    \o [i \in 1..10 |->
          IF i % 2 = 1
          THEN Token("header", item, required_keys[(i + 1) \div 2], <<>>)
          ELSE Token("body", item, required_keys[i \div 2],
                     format_output(get(rep, required_keys[i \div 2])))]

\* the section appended to final_text for an accepted report; the localized
\* header strings H[...] are kept as tokens naming the header
render_section(item, rep) ==
    <<Token("intro", item, "", <<>>)>>
    \o [i \in 1..10 |->
          IF i % 2 = 1
          THEN Token("header", item, required_keys[(i + 1) \div 2], <<>>)
          ELSE Token("body", item, required_keys[i \div 2],
                     format_output(get(rep, required_keys[i \div 2])))]
    \o <<Token("rule", item, "", rule)>>

---------------------------------------------------------------------------
(* Prompt                                                                  *)

\* the habits in the order of the prompt
Habits == <<"smoking", "drinking", "betel_nut">>

\* lines 373-383: one questionnaire line per habit whose status is not ""
habit_instruction(habits) ==
    LET known(habit) == habits[habit] # ""
        kept == SelectSeq(Habits, known)
    IN  [i \in DOMAIN kept |-> [habit |-> kept[i], status |-> habits[kept[i]]]]

\* lines 384-386: the value of the "Status (binary)" line of each habit
habit_prompt_values(habits) ==
    [i \in DOMAIN Habits |->
        [habit |-> Habits[i],
         value |-> IF habits[Habits[i]] = "" THEN "N/A" ELSE habits[Habits[i]]]]

\* Prompt with questionnaire lines for the affirmative habits only and no
\* status line for the others
PromptAffirmativeOnly(l, item, w, limit, hint, smin, notice) ==
    [lang |-> l, item |-> item, word_limit |-> w, system_limit |-> limit,
     target_limit |-> limit, budgets |-> hint, section_min |-> smin,
     retry |-> notice,
     habit_instruction |->
        habit_instruction([h \in {"smoking", "drinking", "betel_nut"} |->
                              IF lifestyle_habits[h] = "yes" THEN "yes" ELSE ""]),
     habit_values |->
        habit_prompt_values([h \in {"smoking", "drinking", "betel_nut"} |->
                                IF lifestyle_habits[h] = "yes" THEN "yes" ELSE ""])]

\* The parts of full_combined_prompt that vary: the language, the item, the
\* hard limit, the limit of build_language_system_rule, the target limit,
\* the section budgets, the per-section minimum, the retry notice, and of
\* the subject data the habit lines (the same in the first prompt and in
\* the prompt of the retry).
Prompt(l, item, w, limit, hint, smin, notice) ==
    [lang |-> l, item |-> item, word_limit |-> w, system_limit |-> limit,
     target_limit |-> limit, budgets |-> hint, section_min |-> smin,
     retry |-> notice,
     habit_instruction |-> habit_instruction(lifestyle_habits),
     habit_values |-> habit_prompt_values(lifestyle_habits)]

NoNotice == [present |-> FALSE, reason |-> NoReason]
RetryNotice(reason) == [present |-> TRUE, reason |-> reason]
NoPrompt == Prompt("", "", 0, 0, <<>>, 0, NoNotice)

---------------------------------------------------------------------------
(* Responses of the generation service                                     *)

Rep(c, n) == [i \in 1..n |-> c]

\* n non-space characters c, a space after every seventh
Sentence(c, n) == [i \in 1..(n + ((n - 1) \div 7)) |-> IF i % 8 = 0 THEN 32 ELSE c]

Str(text) == [t |-> "str", s |-> text]
List(parts) == [t |-> "list", items |-> parts]

\* a character of the selected language that passes its script rule
NativeChar(l) ==
    CASE l = "English" -> 97
      [] l = "TraditionalChinese" -> 20013
      [] l = "Japanese" -> 12354
      [] l = "Korean" -> 44032
      [] OTHER -> 7879

\* a character whose presence alone makes the text fail the rule
ForeignChar(l) ==
    CASE l = "English" -> 20013
      [] l = "TraditionalChinese" -> 12354
      [] l = "Japanese" -> 97
      [] l = "Korean" -> 97
      [] OTHER -> 20013

alias_keys == <<"duy_tri", "theo_doi", "dinh_duong", "bo_sung", "loi_song">>

Object(keys, vals) == [i \in DOMAIN keys |-> [k |-> keys[i], v |-> vals[i]]]
Uniform(v) == Object(required_keys, [i \in 1..5 |-> v])
WithKey(obj, key, v) == [i \in DOMAIN obj |-> IF obj[i].k = key THEN [k |-> key, v |-> v] ELSE obj[i]]

\* the JSON objects the service returns in the run, for language l and hard limit w
Candidates(l, w) ==
    LET c == NativeChar(l)
        f == ForeignChar(l)
        fit == w \div 5
        smin == min_section_length(w)
    IN  { Uniform(Str(Sentence(c, fit))),
          Uniform(List(<<Sentence(c, smin \div 2), Sentence(c, smin - (smin \div 2))>>)),
          Append(Uniform(Str(<<32>> \o Sentence(f, smin) \o <<10>>)),
                 [k |-> "notes", v |-> Str(Sentence(c, 3))]),
          Uniform(Str(Sentence(c, fit + 1))),
          Uniform(Str(Sentence(c, (w + 150) \div 5))),
          Uniform(Str(Sentence(f, fit))),
          Object(alias_keys, [i \in 1..5 |-> Str(Sentence(c, fit))]) }

---------------------------------------------------------------------------
(* The record of the application                                           *)

\* the text put in place of a missing personal history (U+672A U+63D0 U+4F9B)
NotProvided == <<26410, 25552, 20379>>

\* the outcome of a call: it raised, or it returned value
Returned(value) == [raised |-> FALSE, value |-> value]
Raised == [raised |-> TRUE, value |-> None]

\* str.lower on the letters A-Z
lower(text) == [i \in DOMAIN text |-> IF text[i] \in 65..90 THEN text[i] + 32 ELSE text[i]]

\* the index of the first c in text after position from, 0 if there is none
find(text, c, from) ==
    IF \E i \in (from + 1)..Len(text) : text[i] = c
    THEN CHOOSE i \in (from + 1)..Len(text) :
            text[i] = c /\ \A j \in (from + 1)..(i - 1) : text[j] # c
    ELSE 0

\* the index of the last c in text, 0 if there is none
rfind(text, c) ==
    IF \E i \in DOMAIN text : text[i] = c
    THEN CHOOSE i \in DOMAIN text : text[i] = c /\ \A j \in (i + 1)..Len(text) : text[j] # c
    ELSE 0

\* filename.rsplit("\\", 1)[-1].rsplit("/", 1)[-1]
basename(name) ==
    LET tail == SubSeq(name, rfind(name, 92) + 1, Len(name))
    IN  SubSeq(tail, rfind(tail, 47) + 1, Len(tail))

\* re.sub(r"\.(xlsx|xls)$", "", name, flags=re.IGNORECASE)
without_extension(name) ==
    LET n == Len(name)
    IN  IF n >= 5 /\ lower(SubSeq(name, n - 4, n)) = <<46, 120, 108, 115, 120>>
        THEN SubSeq(name, 1, n - 5)
        ELSE IF n >= 4 /\ lower(SubSeq(name, n - 3, n)) = <<46, 120, 108, 115>>
        THEN SubSeq(name, 1, n - 4)
        ELSE name

\* sheet_utils.parse_application_id: the name must match ^[^-]+-([^_]+)_.+$,
\* i.e. hold a first "-" after at least one character, then at least one
\* character before the next "_", then at least one character; the group,
\* stripped, is returned, ValueError is raised otherwise
parse_application_id(name) ==
    LET stem == without_extension(basename(name))
        dash == find(stem, 45, 0)
        underscore == IF dash = 0 THEN 0 ELSE find(stem, 95, dash)
    IN  IF dash >= 2 /\ underscore >= dash + 2 /\ underscore < Len(stem)
        THEN Returned(strip(SubSeq(stem, dash + 1, underscore - 1)))
        ELSE Raised

\* sheet_utils.find_row_by_application_id: the first row whose identifier,
\* stripped, equals the stripped application_id; LookupError if there is none
find_row_by_application_id(recs, id) ==
    IF id = <<>> THEN Returned(None)
    ELSE LET hits == {i \in DOMAIN recs : strip(recs[i].id) = strip(id)}
         IN  IF hits # {}
             THEN Returned(recs[CHOOSE i \in hits : \A j \in hits : i <= j])
             ELSE Raised

\* sheet_utils.safe_string of a text: stripped, "" for nan, none and null
safe_string(value) ==
    LET stripped == strip(value)
    IN  IF lower(stripped) \in {<<110, 97, 110>>, <<110, 111, 110, 101>>, <<110, 117, 108, 108>>}
        THEN <<>>
        ELSE stripped

\* sheet_utils.extract_medical_histories, personal history only: "" without
\* a row; the field personal stands for the column the key matching finds
extract_medical_histories(row) ==
    IF row = None THEN <<>> ELSE safe_string(row.personal)

\* the status of a habit: "yes" stands for the affirmative answer of the
\* questionnaire, "no" for the negative one, "" for none
Statuses == {"yes", "no", ""}

NoHabits == [h \in {"smoking", "drinking", "betel_nut"} |-> ""]

\* sheet_utils.extract_lifestyle_habits: the three statuses of the row, none
\* without a row; the field habits stands for the columns it reads
extract_lifestyle_habits(row) ==
    IF row = None THEN NoHabits ELSE row.habits

\* names of uploaded files: "d/r-A1_x.xlsx", "r- A3 _x.XLS", "r-A2_x.xlsx",
\* and two from which no identifier can be parsed, "rep.xlsx" and "r-A1.xlsx"
Filenames ==
    { <<100, 47, 114, 45, 65, 49, 95, 120, 46, 120, 108, 115, 120>>,
      <<114, 45, 32, 65, 51, 32, 95, 120, 46, 88, 76, 83>>,
      <<114, 45, 65, 50, 95, 120, 46, 120, 108, 115, 120>>,
      <<114, 101, 112, 46, 120, 108, 115, 120>>,
      <<114, 45, 65, 49, 46, 120, 108, 115, 120>> }

\* "r- _x.xlsx": a name that parses to the empty identifier
BlankIdName == <<114, 45, 32, 95, 120, 46, 120, 108, 115, 120>>

\* a sheet with the rows of applications " A1" and "A3"
Records ==
    << [id |-> <<32, 65, 49>>, personal |-> <<32, 104, 116, 110, 32>>,
        habits |-> [h \in {"smoking", "drinking", "betel_nut"} |->
                      IF h = "smoking" THEN "yes" ELSE IF h = "drinking" THEN "no" ELSE ""]],
       [id |-> <<65, 51>>, personal |-> <<78, 111, 110, 101>>, habits |-> NoHabits] >>

---------------------------------------------------------------------------
(* The run                                                                 *)

ItemNames == <<"item1", "item2", "item3", "item4">>

WordLimits == {SmallLimit}
ValidateLimits == {SmallLimit, DefaultLimit}

\* the state before the first item, nothing generated yet
Idle ==
    /\ index = 0
    /\ attempt = 0
    /\ generation_limit = 0
    /\ budget_hint = <<>>
    /\ section_min = 0
    /\ full_combined_prompt = NoPrompt
    /\ report = <<>>
    /\ failure_reason = NoReason
    /\ output_length = 0
    /\ final_text = <<>>
    /\ warnings = <<>>
    /\ progress = 0
    /\ delivered = <<>>
    /\ error = FALSE
    /\ calls = 0
    /\ log = <<>>

\* the state after lines 245-300 for a file without application identifier
Unmatched ==
    /\ filename = BlankIdName
    /\ notices = IF items = <<>> THEN <<"no_items">> ELSE <<>>
    /\ application_id = <<>>
    /\ records = <<>>
    /\ matched_row = None
    /\ personal_history = NotProvided
    /\ lifestyle_habits = NoHabits

Init ==
    /\ lang \in Languages
    /\ word_limit \in WordLimits
    /\ items \in {SubSeq(ItemNames, 1, n) : n \in 0..MaxItems}
    /\ Unmatched
    /\ pc = "items"
    /\ Idle
    /\ arg = <<>>
    /\ result = <<>>

pure == <<arg, result>>
sheet == <<filename, notices, application_id, records, matched_row, personal_history,
           lifestyle_habits>>
config == <<lang, word_limit, items, sheet>>
batch == <<index, final_text, warnings, progress, delivered>>

\* StartItem setting the generation limit for the first item only
StartItemKeepsLimit ==
    /\ pc = "items"
    /\ index < Len(items)
    /\ generation_limit' = IF index = 0 THEN Max(1, word_limit) ELSE generation_limit
    /\ budget_hint' = format_budget_hint(build_length_budget(generation_limit'))
    /\ section_min' = min_section_length(word_limit)
    /\ full_combined_prompt' = Prompt(lang, items[index + 1], word_limit, generation_limit',
                                      budget_hint', section_min', NoNotice)
    /\ report' = <<>>
    /\ failure_reason' = NoReason
    /\ output_length' = 0
    /\ attempt' = 0
    /\ calls' = 0
    /\ log' = <<>>
    /\ pc' = "attempts"
    /\ UNCHANGED <<config, batch, error, pure>>

\* lines 357-473: the per-item set-up before "for attempt in range(3)"
StartItem ==
    /\ pc = "items"
    /\ index < Len(items)
    /\ generation_limit' = Max(1, word_limit)
    /\ budget_hint' = format_budget_hint(build_length_budget(generation_limit'))
    /\ section_min' = min_section_length(word_limit)
    /\ full_combined_prompt' = Prompt(lang, items[index + 1], word_limit, generation_limit',
                                      budget_hint', section_min', NoNotice)
    /\ report' = <<>>
    /\ failure_reason' = NoReason
    /\ output_length' = 0
    /\ attempt' = 0
    /\ calls' = 0
    /\ log' = <<>>
    /\ pc' = "attempts"
    /\ UNCHANGED <<config, batch, error, pure>>

\* shrunk_limit without the test "output_length > word_limit"
shrunk_limit_always ==
    Max(1, generation_limit - Max(MinShrink, output_length - word_limit))

\* lines 476-478: the limit after the shrink step of the second attempt
shrunk_limit ==
    IF output_length > word_limit
    THEN Max(1, generation_limit - Max(MinShrink, output_length - word_limit))
    ELSE generation_limit

\* Compose putting the section budgets of the old limit in the new prompt
ComposeStaleBudget ==
    IF attempt = 1
    THEN /\ generation_limit' = shrunk_limit
         /\ budget_hint' = budget_hint
         /\ section_min' = min_section_length(word_limit)
         /\ full_combined_prompt' = Prompt(lang, items[index + 1], word_limit, generation_limit',
                                           budget_hint', section_min', RetryNotice(failure_reason))
    ELSE UNCHANGED <<generation_limit, budget_hint, section_min, full_combined_prompt>>

\* Compose taking the stated minimum from the shrunk generation limit
ComposeMinimumFromLimit ==
    IF attempt = 1
    THEN /\ generation_limit' = shrunk_limit
         /\ budget_hint' = format_budget_hint(build_length_budget(generation_limit'))
         /\ section_min' = min_section_length(generation_limit')
         /\ full_combined_prompt' = Prompt(lang, items[index + 1], word_limit, generation_limit',
                                           budget_hint', section_min', RetryNotice(failure_reason))
    ELSE UNCHANGED <<generation_limit, budget_hint, section_min, full_combined_prompt>>

\* lines 475-555: the prompt is rebuilt at the top of the second attempt only
Compose ==
    IF attempt = 1
    THEN /\ generation_limit' = shrunk_limit
         /\ budget_hint' = format_budget_hint(build_length_budget(generation_limit'))
         /\ section_min' = min_section_length(word_limit)
         /\ full_combined_prompt' = Prompt(lang, items[index + 1], word_limit, generation_limit',
                                           budget_hint', section_min', RetryNotice(failure_reason))
    ELSE UNCHANGED <<generation_limit, budget_hint, section_min, full_combined_prompt>>

\* what one pass of the loop body leaves behind for inspection
Attempted(parsed, verdict) ==
    [attempt |-> attempt, prompt |-> full_combined_prompt', limit |-> generation_limit',
     parsed |-> parsed, verdict |-> verdict]

InLoop == pc = "attempts" /\ attempt < MaxAttempts

\* client.models.generate_content is called once per pass
Invoke == calls' = calls + 1

\* "for attempt in range(3)" ends after the third pass
Continue ==
    /\ attempt' = attempt + 1
    /\ pc' = IF attempt + 1 = MaxAttempts THEN "after" ELSE "attempts"

\* generate_content raises: the top-level except shows the error
AttemptServiceError ==
    /\ InLoop
    /\ Compose
    /\ Invoke
    /\ error' = TRUE
    /\ pc' = "failed"
    /\ UNCHANGED <<config, batch, attempt, report, failure_reason, output_length, log, pure>>

\* AttemptNoJson giving the item up instead of going on to the next pass
AttemptNoJsonGivesUp ==
    /\ InLoop
    /\ Compose
    /\ Invoke
    /\ failure_reason' = Reason("no_valid_json", "", 0, 0)
    /\ log' = Append(log, Attempted(FALSE, Verdict(FALSE, failure_reason', 0)))
    /\ attempt' = attempt + 1
    /\ pc' = "after"
    /\ UNCHANGED <<config, batch, report, output_length, error, pure>>

\* the response text has no "{...}" substring
AttemptNoJson ==
    /\ InLoop
    /\ Compose
    /\ Invoke
    /\ failure_reason' = Reason("no_valid_json", "", 0, 0)
    /\ log' = Append(log, Attempted(FALSE, Verdict(FALSE, failure_reason', 0)))
    /\ Continue
    /\ UNCHANGED <<config, batch, report, output_length, error, pure>>

\* the "{...}" substring is not JSON: json.loads raises
AttemptMalformedJson ==
    /\ InLoop
    /\ Compose
    /\ Invoke
    /\ error' = TRUE
    /\ pc' = "failed"
    /\ UNCHANGED <<config, batch, attempt, report, failure_reason, output_length, log, pure>>


\* AttemptCandidate validating against the target limit instead of the hard limit
AttemptCandidateTargetCeiling ==
    /\ InLoop
    /\ Compose
    /\ Invoke
    /\ \E candidate_report \in Candidates(lang, word_limit) :
         \E verdict \in {validate_report_output(candidate_report, lang, generation_limit')} :
             /\ failure_reason' = verdict.reason
             /\ output_length' = verdict.length
             /\ log' = Append(log, Attempted(TRUE, verdict))
             /\ IF verdict.valid
                THEN /\ report' = candidate_report
                     /\ attempt' = attempt
                     /\ pc' = "after"
                ELSE /\ report' = report
                     /\ Continue
    /\ UNCHANGED <<config, batch, error, pure>>

\* AttemptCandidate without the break after a valid candidate
AttemptCandidateNoBreak ==
    /\ InLoop
    /\ Compose
    /\ Invoke
    /\ \E candidate_report \in Candidates(lang, word_limit) :
         \E verdict \in {validate_report_output(candidate_report, lang, word_limit)} :
             /\ failure_reason' = verdict.reason
             /\ output_length' = verdict.length
             /\ log' = Append(log, Attempted(TRUE, verdict))
             /\ report' = IF verdict.valid THEN candidate_report ELSE report
             /\ Continue
    /\ UNCHANGED <<config, batch, error, pure>>

\* the "{...}" substring parses to candidate_report, which is validated
AttemptCandidate ==
    /\ InLoop
    /\ Compose
    /\ Invoke
    /\ \E candidate_report \in Candidates(lang, word_limit) :
         \E verdict \in {validate_report_output(candidate_report, lang, word_limit)} :
             /\ failure_reason' = verdict.reason
             /\ output_length' = verdict.length
             /\ log' = Append(log, Attempted(TRUE, verdict))
             /\ IF verdict.valid
                THEN /\ report' = candidate_report
                     /\ attempt' = attempt
                     /\ pc' = "after"
                ELSE /\ report' = report
                     /\ Continue
    /\ UNCHANGED <<config, batch, error, pure>>

\* FinishItem without the warning of the else branch
FinishItemSilent ==
    /\ pc = "after"
    /\ IF report # <<>>
       THEN /\ final_text' = final_text \o render_section(items[index + 1], report)
            /\ warnings' = warnings
       ELSE /\ warnings' = warnings
            /\ final_text' = final_text
    /\ progress' = index + 1
    /\ index' = index + 1
    /\ pc' = "items"
    /\ UNCHANGED <<config, attempt, generation_limit, budget_hint, section_min,
                   full_combined_prompt, report, failure_reason, output_length,
                   delivered, error, calls, log, pure>>

\* lines 576-589: render the accepted report or warn, then advance
FinishItem ==
    /\ pc = "after"
    /\ IF report # <<>>
       THEN /\ final_text' = final_text \o render_section(items[index + 1], report)
            /\ warnings' = warnings
       ELSE /\ warnings' = Append(warnings, [index |-> index + 1, reason |-> failure_reason])
            /\ final_text' = final_text
    /\ progress' = index + 1
    /\ index' = index + 1
    /\ pc' = "items"
    /\ UNCHANGED <<config, attempt, generation_limit, budget_hint, section_min,
                   full_combined_prompt, report, failure_reason, output_length,
                   delivered, error, calls, log, pure>>

\* Finish showing the text gathered so far also after an exception
FinishSalvage ==
    /\ (pc = "items" /\ index = Len(items)) \/ pc = "failed"
    /\ delivered' = final_text
    /\ pc' = "done"
    /\ UNCHANGED <<config, index, attempt, generation_limit, budget_hint, section_min,
                   full_combined_prompt, report, failure_reason, output_length,
                   final_text, warnings, progress, error, calls, log, pure>>

\* lines 591-593: the loop over items is over, the text is shown and offered
Finish ==
    /\ pc = "items"
    /\ index = Len(items)
    /\ delivered' = final_text
    /\ pc' = "done"
    /\ UNCHANGED <<config, index, attempt, generation_limit, budget_hint, section_min,
                   full_combined_prompt, report, failure_reason, output_length,
                   final_text, warnings, progress, error, calls, log, pure>>

Next ==
    \/ StartItem
    \/ AttemptServiceError
    \/ AttemptNoJson
    \/ AttemptMalformedJson
    \/ AttemptCandidate
    \/ FinishItem
    \/ Finish

Spec == Init /\ [][Next]_vars

---------------------------------------------------------------------------
(* The run of one item under the default hard budget                       *)

LongInit ==
    /\ lang = "English"
    /\ word_limit = DefaultLimit
    /\ items = <<ItemNames[1]>>
    /\ Unmatched
    /\ pc = "items"
    /\ Idle
    /\ arg = <<>>
    /\ result = <<>>

LongSpec == LongInit /\ [][Next]_vars

---------------------------------------------------------------------------
(* The run of one item for an application with known habits                *)

HabitInit ==
    /\ lang = "English"
    /\ word_limit = SmallLimit
    /\ items = <<ItemNames[1]>>
    /\ filename = <<114, 45, 65, 49, 95, 120, 46, 120, 108, 115, 120>>
    /\ notices = <<>>
    /\ application_id = <<65, 49>>
    /\ lifestyle_habits \in [{"smoking", "drinking", "betel_nut"} -> Statuses]
    /\ matched_row = [id |-> <<65, 49>>, personal |-> <<104, 116, 110>>,
                      habits |-> lifestyle_habits]
    /\ records = <<matched_row>>
    /\ personal_history = <<104, 116, 110>>
    /\ pc = "items"
    /\ Idle
    /\ arg = <<>>
    /\ result = <<>>

HabitSpec == HabitInit /\ [][Next]_vars

---------------------------------------------------------------------------
(* The run from the lookup of the application's record on                  *)

LookupInit ==
    /\ lang = "English"
    /\ word_limit = SmallLimit
    /\ items \in {SubSeq(ItemNames, 1, n) : n \in 0..MaxItems}
    /\ filename \in Filenames
    /\ notices = <<>>
    /\ application_id = <<>>
    /\ records \in {<<>>, Records}
    /\ matched_row = None
    /\ personal_history = <<>>
    /\ lifestyle_habits = NoHabits
    /\ pc = "parse"
    /\ Idle
    /\ arg = <<>>
    /\ result = <<>>

\* what the run leaves alone before the item loop
loop == <<index, attempt, generation_limit, budget_hint, section_min,
          full_combined_prompt, report, failure_reason, output_length,
          final_text, warnings, progress, delivered, calls, log>>

\* lines 245-250: the identifier from the file name, "" and a warning when
\* the name does not have the expected form
ParseName ==
    /\ pc = "parse"
    /\ \E parsed \in {parse_application_id(filename)} :
         IF parsed.raised
         THEN /\ application_id' = <<>>
              /\ notices' = Append(notices, "filename_unparseable")
         ELSE /\ application_id' = parsed.value
              /\ notices' = notices
    /\ pc' = "lookup"
    /\ UNCHANGED <<lang, word_limit, items, filename, records, matched_row,
                   personal_history, lifestyle_habits, loop, error, pure>>

\* lines 262-307: find the row, warn if there is none, take the history
\* from it, warn if no item is flagged; an exception of the lookup reaches
\* the top-level except
Lookup ==
    /\ pc = "lookup"
    /\ \E found \in {find_row_by_application_id(records, application_id)} :
         IF found.raised
         THEN /\ error' = TRUE
              /\ pc' = "failed"
              /\ UNCHANGED <<matched_row, personal_history, lifestyle_habits, notices>>
         ELSE /\ matched_row' = found.value
              /\ lifestyle_habits' = extract_lifestyle_habits(found.value)
              /\ personal_history' = IF extract_medical_histories(found.value) = <<>>
                                     THEN NotProvided
                                     ELSE extract_medical_histories(found.value)
              /\ notices' = notices
                    \o (IF found.value = None /\ application_id # <<>>
                        THEN <<"record_not_found">> ELSE <<>>)
                    \o (IF items = <<>> THEN <<"no_items">> ELSE <<>>)
              /\ error' = error
              /\ pc' = "items"
    /\ UNCHANGED <<lang, word_limit, items, filename, application_id, records, loop, pure>>

LookupNext ==
    \/ ParseName
    \/ Lookup
    \/ Next

LookupSpec == LookupInit /\ [][LookupNext]_vars

---------------------------------------------------------------------------
(* The length budgeter on its own                                          *)

run == <<config, index, attempt, generation_limit, budget_hint, section_min,
         full_combined_prompt, report, failure_reason, output_length,
         final_text, warnings, progress, delivered, error, calls, log>>

BudgetInit ==
    /\ lang = "English"
    /\ word_limit = SmallLimit
    /\ items = <<>>
    /\ Unmatched
    /\ pc = "call"
    /\ Idle
    /\ arg \in {[w |-> w] : w \in 1..MaxBudgetW}
    /\ result = <<>>

BudgetCall ==
    /\ pc = "call"
    /\ result' = build_length_budget(arg.w)
    /\ pc' = "returned"
    /\ UNCHANGED <<run, arg>>

BudgetNext == BudgetCall

BudgetSpec == BudgetInit /\ [][BudgetNext]_vars

---------------------------------------------------------------------------
(* The validator on its own                                                *)

SampleChars == {97, 7879, 20013, 12354, 44032}

\* a second script to mix into a text written with c
OtherChar(c) ==
    CASE c = 97 -> 20013
      [] c = 20013 -> 12354
      [] c = 12354 -> 44032
      [] c = 44032 -> 7879
      [] OTHER -> 97

\* section values around the limits of the checks, for hard limit w
SectionValues(c, w) ==
    { Str(Sentence(c, w \div 5)),
      Str(<<>>),
      Str(<<32, 10>>),
      Str(<<32>> \o Sentence(c, min_section_length(w) - 1)),
      Str(Sentence(c, min_section_length(w))),
      Str(Sentence(OtherChar(c), w \div 5)),
      Str(Sentence(c, (w \div 5) + 3)) }

\* objects in which at most two sections differ from a well-formed one:
\* under the canonical keys, with an extra key, and under the alias keys
SampleReports(c, w) ==
    LET base == Uniform(Str(Sentence(c, w \div 5)))
        core == { WithKey(WithKey(base, required_keys[p[1]], x), required_keys[p[2]], y) :
                    p \in {<<1, 2>>, <<2, 5>>, <<3, 4>>, <<1, 5>>},
                    x \in SectionValues(c, w), y \in SectionValues(c, w) }
    IN  core
        \cup { Append(obj, [k |-> "notes", v |-> Str(Sentence(OtherChar(c), 4))]) : obj \in core }
        \cup { Object(alias_keys, values(obj)) : obj \in core }

ValidateInit ==
    /\ lang = "English"
    /\ word_limit = SmallLimit
    /\ items = <<>>
    /\ Unmatched
    /\ pc = "call"
    /\ Idle
    /\ \E c \in SampleChars, l \in Languages, w \in ValidateLimits :
         \E rep \in SampleReports(c, w) :
            arg = [report |-> rep, lang |-> l, word_limit |-> w]
    /\ result = <<>>

ValidateCall ==
    /\ pc = "call"
    /\ result' = validate_report_output(arg.report, arg.lang, arg.word_limit)
    /\ pc' = "returned"
    /\ UNCHANGED <<run, arg>>

ValidateNext == ValidateCall

ValidateSpec == ValidateInit /\ [][ValidateNext]_vars

---------------------------------------------------------------------------
(* The tier selection of extract_data_from_upload on its own               *)

\* the two mode strings returned with the flagged items: the first reads
\* "extremely low score (<30)", the second "standard filter (<37)"
LowMode == "lowest (<30)"
StdMode == "standard (<37)"

\* scores around the two thresholds
Scores == {25, 29, 30, 35, 36, 37, 40, 50}

\* [item['name'] for item in all_scored_items if item['score'] <= threshold]
below_inclusive(all_scored_items, threshold) ==
    LET flagged(item) == item.score <= threshold
        kept == SelectSeq(all_scored_items, flagged)
    IN  [i \in DOMAIN kept |-> kept[i].name]

\* [item['name'] for item in all_scored_items if item['score'] < threshold]
below(all_scored_items, threshold) ==
    LET flagged(item) == item.score < threshold
        kept == SelectSeq(all_scored_items, flagged)
    IN  [i \in DOMAIN kept |-> kept[i].name]

\* extract_data_from_upload returning no mode string with an empty second tier
extract_data_from_upload_unlabelled(all_scored_items) ==
    LET tier_1 == below(all_scored_items, threshold_low)
        tier_2 == below(all_scored_items, threshold_std)
    IN  IF tier_1 # <<>> THEN [items |-> tier_1, mode |-> LowMode]
        ELSE IF tier_2 # <<>> THEN [items |-> tier_2, mode |-> StdMode]
        ELSE [items |-> tier_2, mode |-> ""]

\* lines 188-194: the flagged item names and the mode string, from the
\* list all_scored_items that the scan of the worksheet has built
extract_data_from_upload(all_scored_items) ==
    LET tier_1 == below(all_scored_items, threshold_low)
        tier_2 == below(all_scored_items, threshold_std)
    IN  IF tier_1 # <<>> THEN [items |-> tier_1, mode |-> LowMode]
        ELSE [items |-> tier_2, mode |-> StdMode]

TierInit ==
    /\ lang = "English"
    /\ word_limit = SmallLimit
    /\ items = <<>>
    /\ Unmatched
    /\ pc = "call"
    /\ Idle
    /\ \E n \in 0..MaxScored :
         \E scores \in [1..n -> Scores] :
            arg = [all_scored_items |->
                     [i \in 1..n |-> [name |-> ItemNames[i], score |-> scores[i]]]]
    /\ result = <<>>

TierCall ==
    /\ pc = "call"
    /\ result' = extract_data_from_upload(arg.all_scored_items)
    /\ pc' = "returned"
    /\ UNCHANGED <<run, arg>>

TierNext == TierCall

TierSpec == TierInit /\ [][TierNext]_vars

---------------------------------------------------------------------------
(* Properties                                                              *)

\* C1: a report accepted by the loop satisfies the language rule of the
\* selected language, has its five canonical sections non-empty after
\* trimming and each at least max(20, floor(hardBudget * 0.03)) non-space
\* characters long, and measures at most hardBudget; the ceiling a
\* rejection quotes is the hard budget, whatever the generation limit is.
C1_AcceptedReportIsValid ==
    /\ report # <<>> =>
         /\ is_language_valid(combined(report), lang)
         /\ \A i \in 1..5 :
              /\ strip(normalize_report_value(get(report, required_keys[i]))) # <<>>
              /\ count_output_length(normalize_report_value(get(report, required_keys[i])))
                   >= Max(20, (word_limit * 3) \div 100)
         /\ count_output_length(combined(report)) <= word_limit
         /\ output_length = count_output_length(combined(report))
    /\ failure_reason.code = "exceeds_limit" =>
         /\ failure_reason.limit = word_limit
         /\ failure_reason.length > word_limit

\* a report longer than the shrunk generation limit has been accepted
C1_Witness ==
    /\ report # <<>>
    /\ generation_limit < word_limit
    /\ output_length > generation_limit

\* C2: at most 3 invocations per item, one after another, none after an
\* acceptance; unless a call raises, the loop ends Accepted or Exhausted:
\* inside the loop fewer than 3 calls have been made and the guard of the
\* next pass holds, and every step leaves the loop or makes one more call.
C2_BoundedAttempts ==
    /\ [](calls <= 3)
    /\ [][calls' # calls => (calls' = 0 \/ (calls' = calls + 1 /\ report = <<>>))]_vars
    /\ [](pc = "after" => (report # <<>> \/ calls = 3))
    /\ [](pc = "attempts" => (calls < 3 /\ calls = attempt /\ report = <<>>))
    /\ [][pc = "attempts" => (pc' \in {"after", "failed"} \/ calls' = calls + 1)]_vars

\* a report accepted by the third invocation
C2_Witness ==
    /\ pc = "after"
    /\ calls = 3
    /\ report # <<>>

\* C3: if attempt k measured d > 0 characters over the hard budget, the
\* generation limit of attempt k+1 is at most that of attempt k minus
\* max(10, d) (not below the floor of 1), for every k.
C3_ShrinkEveryRetry ==
    \A k \in 1..(Len(log) - 1) :
        (log[k].parsed /\ log[k].verdict.length > word_limit) =>
            log[k + 1].limit
                <= Max(1, log[k].limit - Max(10, log[k].verdict.length - word_limit))

\* C4: after a first candidate measuring m > hardBudget, the second prompt
\* has limit max(1, hardBudget - max(10, m - hardBudget)) and section
\* budgets summing to at most that limit.
C4_SecondAttemptBudget ==
    (Len(log) >= 2 /\ log[1].parsed /\ log[1].verdict.length > word_limit) =>
        /\ log[2].prompt.target_limit
             = Max(1, word_limit - Max(10, log[1].verdict.length - word_limit))
        /\ SumSeq([i \in 1..5 |-> log[2].prompt.budgets[i].max])
             <= log[2].prompt.target_limit

\* C5: for every total W >= 5 the five allocations are each >= 1 and sum
\* to exactly W.
C5_BudgetSumsToTotal ==
    (pc = "returned" /\ arg.w >= 5) =>
        /\ Len(result) = 5
        /\ \A i \in 1..5 : result[i] >= 1
        /\ result[1] + result[2] + result[3] + result[4] + result[5] = arg.w

\* a budget of at least 5 has been split into unequal shares
C5_Witness ==
    /\ pc = "returned"
    /\ arg.w >= 5
    /\ result[2] < result[1]
    /\ result[1] < result[5]

\* C6: for every positive total, W < 5 included, each of the five values is
\* >= 1 and their sum does not exceed W.
C6_BudgetWithinLimit ==
    budget_hint # <<>> =>
        /\ \A i \in 1..5 : budget_hint[i].max >= 1
        /\ SumSeq([i \in 1..5 |-> budget_hint[i].max]) <= generation_limit

\* C7 as stated: a candidate with an empty canonical section fails with a
\* reason naming an empty section as empty, whatever the other sections
\* hold (here: already when none of them is too short).
C7_EmptyAlwaysNamed ==
    ( /\ pc = "returned"
      /\ \E i \in 1..5 : get(arg.report, required_keys[i]) = Str(<<>>)
      /\ \A i \in 1..5 :
            \/ strip(normalize_report_value(get(arg.report, required_keys[i]))) = <<>>
            \/ count_output_length(normalize_report_value(get(arg.report, required_keys[i])))
                 >= Max(20, (arg.word_limit * 3) \div 100) ) =>
        /\ ~result.valid
        /\ result.reason.code = "empty"
        /\ strip(normalize_report_value(get(arg.report, result.reason.key))) = <<>>

\* C7: a candidate with an empty canonical section fails validation; the
\* reason names that section as empty when the combined text passes the
\* language rule and every earlier canonical section is non-empty and meets
\* the minimum length.
C7_EmptyNamedAfterEarlierChecks ==
    pc = "returned" =>
        \A i \in 1..5 :
            get(arg.report, required_keys[i]) = Str(<<>>) =>
                /\ ~result.valid
                /\ ( /\ is_language_valid(combined(arg.report), arg.lang)
                     /\ \A j \in 1..(i - 1) :
                          count_output_length(normalize_report_value(get(arg.report, required_keys[j])))
                            >= Max(20, (arg.word_limit * 3) \div 100) )
                   => result.reason = Reason("empty", required_keys[i], 0, 0)

\* an empty third section is named although a later section is too short
C7_Witness ==
    /\ pc = "returned"
    /\ get(arg.report, "nutrition") = Str(<<>>)
    /\ get(arg.report, "supplements") # Str(<<>>)
    /\ count_output_length(normalize_report_value(get(arg.report, "supplements"))) < 20
    /\ result.reason = Reason("empty", "nutrition", 0, 0)

\* C8 as stated: a candidate (here: one holding the five canonical keys and
\* no other) measuring more than W fails with a reason embedding the
\* measured count and W, and the verdict carries that count.
C8_OverrunAlwaysQuoted ==
    ( /\ pc = "returned"
      /\ [i \in DOMAIN arg.report |-> arg.report[i].k] = required_keys
      /\ count_output_length(combined(arg.report)) > arg.word_limit ) =>
        /\ ~result.valid
        /\ result.reason = Reason("exceeds_limit", "", count_output_length(combined(arg.report)),
                                  arg.word_limit)
        /\ result.length = count_output_length(combined(arg.report))

\* C8: a candidate measuring more than W fails validation and the verdict
\* carries the measured count; the reason embeds the count and W when the
\* language rule and the checks of all five sections pass.
C8_OverrunQuotedAfterEarlierChecks ==
    (pc = "returned" /\ count_output_length(combined(arg.report)) > arg.word_limit) =>
        /\ ~result.valid
        /\ result.length = count_output_length(combined(arg.report))
        /\ ( /\ is_language_valid(combined(arg.report), arg.lang)
             /\ \A j \in 1..5 :
                  count_output_length(normalize_report_value(get(arg.report, required_keys[j])))
                    >= Max(20, (arg.word_limit * 3) \div 100) )
           => result.reason = Reason("exceeds_limit", "",
                                     count_output_length(combined(arg.report)), arg.word_limit)

\* an overrun by a single long section is quoted
C8_Witness ==
    /\ pc = "returned"
    /\ result.reason.code = "exceeds_limit"
    /\ result.reason.length > arg.word_limit
    /\ result.reason.limit = arg.word_limit

\* C9: English text with a CJK or Kana code point, Japanese text without
\* Kana and Korean text without Hangul are rejected as a language mismatch;
\* text satisfying the rule of its language is not rejected for language.
C9_LanguageMismatch ==
    pc = "returned" =>
        LET text == combined(arg.report)
            cjk == \E i \in DOMAIN text : text[i] \in 19968..40959
            kana == \E i \in DOMAIN text : text[i] \in 12352..12543
            hangul == \E i \in DOMAIN text : text[i] \in 44032..55215
            mismatch == ~result.valid /\ result.reason.code = "language_mismatch"
        IN  /\ arg.lang = "English" => (mismatch <=> (cjk \/ kana))
            /\ arg.lang = "Japanese" => (mismatch <=> ~kana)
            /\ arg.lang = "Korean" => (mismatch <=> ~hangul)

\* English text holding Kana but no CJK ideograph is rejected
C9_Witness ==
    /\ pc = "returned"
    /\ arg.lang = "English"
    /\ \E i \in DOMAIN combined(arg.report) : combined(arg.report)[i] \in 12352..12543
    /\ ~\E i \in DOMAIN combined(arg.report) : combined(arg.report)[i] \in 19968..40959
    /\ result.reason.code = "language_mismatch"

\* C10: a candidate whose sections are under the alias keys only gets the
\* verdict of the same values under the canonical keys.
C10_AliasKeysSameVerdict ==
    (pc = "returned" /\ [i \in DOMAIN arg.report |-> arg.report[i].k] = alias_keys) =>
        result = validate_report_output(Object(required_keys, values(arg.report)),
                                        arg.lang, arg.word_limit)

\* C11: when the three attempts of an item end without a valid candidate,
\* the step after the loop appends a warning with the item's index and the
\* reason recorded by the last attempt, appends nothing to the running
\* report, raises no error and moves on; the next step starts the next item.
C11_ExhaustedItemWarnsAndContinues ==
    /\ []((pc = "after" /\ report = <<>>) =>
            /\ Len(log) = 3
            /\ log[3].attempt = 2
            /\ ~log[3].verdict.valid)
    /\ [][(pc = "after" /\ report = <<>>) =>
            /\ warnings' = Append(warnings, [index |-> index + 1,
                                             reason |-> log[3].verdict.reason])
            /\ final_text' = final_text
            /\ index' = index + 1
            /\ pc' = "items"
            /\ error' = FALSE]_vars
    /\ [][(pc = "items" /\ index < Len(items)) =>
            /\ pc' = "attempts"
            /\ full_combined_prompt'.item = items[index + 1]]_vars
    /\ [](\A k \in DOMAIN warnings :
            /\ warnings[k].index \in 1..index
            /\ \A t \in DOMAIN final_text : final_text[t].item # items[warnings[k].index])

\* the second item is being attempted after the first one was given up
\* with the reason of its third attempt
C11_Witness ==
    /\ pc = "attempts"
    /\ index = 1
    /\ warnings = <<[index |-> 1, reason |-> Reason("no_valid_json", "", 0, 0)]>>
    /\ final_text = <<>>

\* C12: a response whose "{...}" substring is not JSON, or a service call
\* that raises, ends the run: the error is shown, nothing happens after it
\* (no further attempt, no later item), and nothing is delivered, whatever
\* sections earlier items have accumulated.
C12_ExceptionAbortsRun ==
    /\ [](pc = "failed" => (error /\ delivered = <<>>))
    /\ [](error => pc = "failed")
    /\ [][pc # "failed"]_vars
    /\ [][pc' = "failed" =>
            /\ pc = "attempts"
            /\ calls' = calls + 1
            /\ UNCHANGED <<index, final_text, warnings, delivered, report>>]_vars

\* the run was aborted in the second attempt of the second item, the
\* section of the first item is lost
C12_Witness ==
    /\ pc = "failed"
    /\ index = 1
    /\ calls = 2
    /\ final_text # <<>>
    /\ delivered = <<>>

\* C13: the index advances by one, only after the current item was accepted
\* or exhausted; every attempt is for item index + 1; the running report
\* grows only by the rendered section of an accepted item; it consists of
\* one block per accepted item, in item order, each ending with a line of
\* 50 "=", and nothing for a failed item; the delivered text is that report.
C13_SequentialItemsOrderedText ==
    /\ [][index' # index =>
            /\ index' = index + 1
            /\ pc = "after"
            /\ (report # <<>> \/ calls = 3)]_vars
    /\ [](pc \in {"attempts", "after"} =>
            /\ index < Len(items)
            /\ full_combined_prompt.item = items[index + 1]
            /\ \A k \in DOMAIN log : log[k].prompt.item = items[index + 1])
    /\ [][final_text' # final_text =>
            /\ pc = "after"
            /\ report # <<>>
            /\ final_text' = final_text \o render_section(items[index + 1], report)]_vars
    /\ [](LET failed == {warnings[k].index : k \in DOMAIN warnings}
              accepted == index - Len(warnings)
          IN  /\ Len(final_text) = 12 * accepted
              /\ \A n \in 1..accepted :
                   \E m \in 1..index :
                      /\ m \notin failed
                      /\ Cardinality({j \in 1..m : j \notin failed}) = n
                      /\ \A t \in (12 * n - 11)..(12 * n) : final_text[t].item = items[m]
                      /\ final_text[12 * n - 11].kind = "intro"
                      /\ \A j \in 1..5 :
                           /\ final_text[12 * n - 11 + 2 * j - 1].kind = "header"
                           /\ final_text[12 * n - 11 + 2 * j - 1].key = required_keys[j]
                           /\ final_text[12 * n - 11 + 2 * j].kind = "body"
                           /\ final_text[12 * n - 11 + 2 * j].key = required_keys[j]
                      /\ final_text[12 * n].kind = "rule"
                      /\ final_text[12 * n].text = [i \in 1..50 |-> 61])
    /\ [](pc = "done" => delivered = final_text)

\* the first item failed and the second was accepted: the delivered text
\* is the section of the second item alone
C13_Witness ==
    /\ pc = "done"
    /\ Len(items) = 2
    /\ Len(warnings) = 1
    /\ warnings[1].index = 1
    /\ Len(delivered) = 12
    /\ delivered[1].item = items[2]

\* C17: every attempt after the first of an item is sent a prompt whose
\* retry notice states the failure reason of the attempt just before it.
C17_RetryNoticeStatesPreviousReason ==
    \A k \in 2..Len(log) :
        log[k].prompt.retry = RetryNotice(log[k - 1].verdict.reason)

\* C20: within an item the generation limit is the hard budget at the first
\* attempt, lies in 1..hardBudget at every attempt, never grows from one
\* attempt to the next, and is the same as before after an attempt that did
\* not measure more than the hard budget.
C20_GenerationLimitMonotone ==
    /\ []((pc = "attempts" /\ attempt = 0) => generation_limit = word_limit)
    /\ [](pc \in {"attempts", "after"} => generation_limit \in 1..word_limit)
    /\ [][(pc \in {"attempts", "after"}) => (generation_limit' <= generation_limit)]_vars
    /\ [](\A k \in DOMAIN log :
            /\ log[k].limit \in 1..word_limit
            /\ k = 1 => log[k].limit = word_limit
            /\ k > 1 => log[k].limit <= log[k - 1].limit
            /\ (k > 1 /\ ~(log[k - 1].parsed /\ log[k - 1].verdict.length > word_limit))
                  => log[k].limit = log[k - 1].limit)

\* a language mismatch within the hard budget was followed by a retry
\* with the limit of the first attempt
C20_Witness ==
    /\ Len(log) >= 2
    /\ log[1].verdict.reason.code = "language_mismatch"
    /\ log[1].verdict.length <= word_limit
    /\ log[2].prompt.retry.present
    /\ log[2].limit = word_limit

\* C18 as stated: the verdict is that of the first failing check in the
\* order language rule, emptiness of the five sections, minimum length of
\* the five sections, ceiling; an empty section is reported before any
\* section that is too short.
C18_CompletenessBeforeMinimumLength ==
    pc = "returned" =>
        LET text(i) == normalize_report_value(get(arg.report, required_keys[i]))
            empty(i) == strip(text(i)) = <<>>
            short(i) == count_output_length(text(i)) < Max(20, (arg.word_limit * 3) \div 100)
            length == count_output_length(combined(arg.report))
        IN  IF ~is_language_valid(combined(arg.report), arg.lang)
            THEN result.reason.code = "language_mismatch"
            ELSE IF \E i \in 1..5 : empty(i)
            THEN \E i \in 1..5 :
                    /\ empty(i)
                    /\ \A j \in 1..(i - 1) : ~empty(j)
                    /\ result.reason = Reason("empty", required_keys[i], 0, 0)
            ELSE IF \E i \in 1..5 : short(i)
            THEN \E i \in 1..5 :
                    /\ short(i)
                    /\ \A j \in 1..(i - 1) : ~short(j)
                    /\ result.reason = Reason("short", required_keys[i], 0, 0)
            ELSE IF length > arg.word_limit
            THEN result.reason = Reason("exceeds_limit", "", length, arg.word_limit)
            ELSE result.valid

\* C18: the verdict is that of the first failing check in the order
\* language rule, then for each section in canonical order its emptiness
\* and then its minimum length, then the ceiling: of two bad sections the
\* earlier one is reported, whether it is empty or too short.
C18_SectionsCheckedInKeyOrder ==
    pc = "returned" =>
        LET text(i) == normalize_report_value(get(arg.report, required_keys[i]))
            empty(i) == strip(text(i)) = <<>>
            short(i) == count_output_length(text(i)) < Max(20, (arg.word_limit * 3) \div 100)
            length == count_output_length(combined(arg.report))
        IN  IF ~is_language_valid(combined(arg.report), arg.lang)
            THEN result.reason.code = "language_mismatch"
            ELSE IF \E i \in 1..5 : empty(i) \/ short(i)
            THEN \E i \in 1..5 :
                    /\ empty(i) \/ short(i)
                    /\ \A j \in 1..(i - 1) : ~empty(j) /\ ~short(j)
                    /\ result.reason = Reason(IF empty(i) THEN "empty" ELSE "short",
                                              required_keys[i], 0, 0)
            ELSE IF length > arg.word_limit
            THEN result.reason = Reason("exceeds_limit", "", length, arg.word_limit)
            ELSE result.valid

\* the first section is reported as too short although the second is empty
C18_Witness ==
    /\ pc = "returned"
    /\ get(arg.report, "tracking") = Str(<<>>)
    /\ result.reason = Reason("short", "maintenance", 0, 0)

\* C19: for Vietnamese the candidate is rejected as a language mismatch
\* exactly when its combined text holds no Latin (plain or accented) letter
\* or holds a CJK, Kana or Hangul code point.
C19_VietnameseRejectsOtherScripts ==
    (pc = "returned" /\ arg.lang = "Vietnamese") =>
        LET text == combined(arg.report)
            latin == \E i \in DOMAIN text :
                        text[i] \in 65..90 \/ text[i] \in 97..122 \/ text[i] \in 192..7929
            other == \E i \in DOMAIN text :
                        \/ text[i] \in 19968..40959
                        \/ text[i] \in 12352..12543
                        \/ text[i] \in 44032..55215
            mismatch == ~result.valid /\ result.reason.code = "language_mismatch"
        IN  mismatch <=> (~latin \/ other)

\* C15: the flagged items are the names, in scan order, of exactly the
\* items scoring below 30 if there is one, otherwise of exactly the items
\* scoring below 37; scores 25, 40, 50 flag the first item only, scores
\* 35, 36, 50 the first two.
C15_TierSelection ==
    pc = "returned" =>
        LET scored == arg.all_scored_items
            threshold == IF \E i \in DOMAIN scored : scored[i].score < 30 THEN 30 ELSE 37
            chosen == {i \in DOMAIN scored : scored[i].score < threshold}
        IN  /\ Len(result.items) = Cardinality(chosen)
            /\ \A i \in chosen :
                 result.items[Cardinality({j \in chosen : j <= i})] = scored[i].name
            /\ [i \in DOMAIN scored |-> scored[i].score] = <<25, 40, 50>>
                 => result.items = <<scored[1].name>>
            /\ [i \in DOMAIN scored |-> scored[i].score] = <<35, 36, 50>>
                 => result.items = <<scored[1].name, scored[2].name>>

\* an item scoring 35 is left out because a later item scores below 30
C15_Witness ==
    /\ pc = "returned"
    /\ Len(arg.all_scored_items) = 3
    /\ arg.all_scored_items[1].score = 35
    /\ arg.all_scored_items[3].score = 29
    /\ result.items = <<arg.all_scored_items[3].name>>

\* C16 as stated: the mode string is the low one if an item scores below
\* 30, else the standard one if an item scores below 37, else empty.
C16_ModeEmptyWithoutFlaggedItem ==
    pc = "returned" =>
        LET scored == arg.all_scored_items
        IN  result.mode =
              IF \E i \in DOMAIN scored : scored[i].score < 30 THEN LowMode
              ELSE IF \E i \in DOMAIN scored : scored[i].score < 37 THEN StdMode
              ELSE ""

\* C16: the mode string is the low one if an item scores below 30 and the
\* standard one otherwise, also when no item scores below 37 and the list
\* of flagged items is empty.
C16_ModeNeverEmpty ==
    pc = "returned" =>
        LET scored == arg.all_scored_items
        IN  /\ result.mode =
                 IF \E i \in DOMAIN scored : scored[i].score < 30 THEN LowMode ELSE StdMode
            /\ result.mode # ""

\* no item is below 37: nothing is flagged and the mode is the standard one
C16_Witness ==
    /\ pc = "returned"
    /\ arg.all_scored_items # <<>>
    /\ \A i \in DOMAIN arg.all_scored_items : arg.all_scored_items[i].score >= 37
    /\ result.items = <<>>
    /\ result.mode = StdMode

\* C14: when application_id is not empty and no row of the sheet has it,
\* the lookup gives None, the personal history is the placeholder, a
\* warning about the missing record is shown and the run is not aborted
\* before the first item: it ends only after every item was handled.
C14_MissingRecordDegrades ==
    ( /\ pc # "lookup"
      /\ pc # "parse"
      /\ application_id # <<>>
      /\ \A i \in DOMAIN records : strip(records[i].id) # strip(application_id) ) =>
        /\ matched_row = None
        /\ personal_history = NotProvided
        /\ \E k \in DOMAIN notices : notices[k] = "record_not_found"
        /\ ~(error /\ index = 0 /\ calls = 0)
        /\ pc = "done" => index = Len(items)

\* C21 as stated: at every attempt the minimum per section stated in the
\* prompt is max(20, floor(generationLimit * 0.03)) for the generation
\* limit of that attempt.
C21_MinimumFromGenerationLimit ==
    \A k \in DOMAIN log :
        log[k].prompt.section_min = Max(20, (log[k].limit * 3) \div 100)

\* C21: at every attempt the minimum per section stated in the prompt is
\* max(20, floor(hardBudget * 0.03)), the minimum the validator enforces;
\* a shrink of the generation limit does not change it.
C21_MinimumFromHardBudget ==
    /\ pc \in {"attempts", "after"} => section_min = Max(20, (word_limit * 3) \div 100)
    /\ \A k \in DOMAIN log :
          log[k].prompt.section_min = Max(20, (word_limit * 3) \div 100)

\* the second attempt was sent with a shrunk limit whose own minimum would
\* be smaller than the minimum stated
C21_Witness ==
    /\ Len(log) >= 2
    /\ log[2].limit < word_limit
    /\ Max(20, (log[2].limit * 3) \div 100) < log[2].prompt.section_min

\* C22: a pass whose response has no "{...}" substring records the reason
\* "no valid JSON", validates nothing (the measured length and the report
\* stay as they were), counts as one attempt and one call, touches neither
\* the batch nor the error flag, and is followed by the next pass if fewer
\* than three were made, by the end of the item's loop otherwise.
C22_NoJsonAttemptContinues ==
    [][(Len(log') = Len(log) + 1 /\ ~log'[Len(log')].parsed) =>
          /\ failure_reason' = Reason("no_valid_json", "", 0, 0)
          /\ output_length' = output_length
          /\ report' = report
          /\ calls' = calls + 1
          /\ attempt' = attempt + 1
          /\ error' = FALSE
          /\ UNCHANGED <<index, final_text, warnings, delivered>>
          /\ pc' = IF attempt + 1 < 3 THEN "attempts" ELSE "after"]_vars

\* a first pass without JSON was followed by a second pass whose candidate
\* was accepted
C22_Witness ==
    /\ Len(log) = 2
    /\ ~log[1].parsed
    /\ log[1].verdict.reason.code = "no_valid_json"
    /\ log[2].parsed
    /\ report # <<>>

\* C23: for a candidate holding the five canonical keys, the measured
\* length is the non-space count of the five canonical values joined by
\* spaces, and the verdict is the verdict of the object reduced to these
\* five keys: a value under another key changes neither.
C23_ExtraKeysNotMeasured ==
    ( /\ pc = "returned"
      /\ \A i \in 1..5 : \E j \in DOMAIN arg.report : arg.report[j].k = required_keys[i] ) =>
        LET five == [i \in 1..5 |-> get(arg.report, required_keys[i])]
            text == join(<<32>>, [i \in 1..5 |-> normalize_report_value(five[i])])
        IN  /\ result.length = count_output_length(text)
            /\ result = validate_report_output(Object(required_keys, five),
                                               arg.lang, arg.word_limit)

\* C24: whatever the previous item left behind, the loop of an item starts
\* with the generation limit at the hard budget, no failure reason, measured
\* length 0, no accepted report and a prompt without retry notice built
\* from the hard budget; starting an item changes neither the accumulated
\* text nor the progress counter.
C24_NoLeakBetweenItems ==
    /\ [][(pc = "items" /\ pc' = "attempts") =>
            /\ generation_limit' = word_limit
            /\ failure_reason' = Reason("", "", 0, 0)
            /\ output_length' = 0
            /\ report' = <<>>
            /\ attempt' = 0
            /\ calls' = 0
            /\ full_combined_prompt'.item = items[index + 1]
            /\ full_combined_prompt'.target_limit = word_limit
            /\ full_combined_prompt'.retry.present = FALSE
            /\ SumSeq([i \in 1..5 |-> full_combined_prompt'.budgets[i].max]) = word_limit
            /\ UNCHANGED <<final_text, progress>>]_vars
    /\ []((pc = "attempts" /\ calls = 0) =>
            /\ generation_limit = word_limit
            /\ failure_reason = Reason("", "", 0, 0)
            /\ output_length = 0
            /\ report = <<>>)

\* the second item is about to start while the variables still hold the
\* shrunk limit and the accepted report of the first
C24_Witness ==
    /\ pc = "items"
    /\ index = 1
    /\ Len(items) > 1
    /\ generation_limit < word_limit
    /\ report # <<>>
    /\ failure_reason.code = ""

\* C25: the prompt of every attempt, and the prompt held while an item is
\* worked on, states as target limit the current generation limit and as
\* section ceilings the budgeter's output for that limit, in key order.
C25_PromptBudgetNeverStale ==
    /\ pc \in {"attempts", "after", "failed"} =>
         /\ full_combined_prompt.target_limit = generation_limit
         /\ full_combined_prompt.system_limit = generation_limit
         /\ full_combined_prompt.budgets = budget_hint
         /\ \A i \in 1..5 :
              /\ budget_hint[i].k = required_keys[i]
              /\ budget_hint[i].max = build_length_budget(generation_limit)[i]
    /\ \A k \in DOMAIN log :
         /\ log[k].prompt.target_limit = log[k].limit
         /\ \A i \in 1..5 :
              /\ log[k].prompt.budgets[i].k = required_keys[i]
              /\ log[k].prompt.budgets[i].max = build_length_budget(log[k].limit)[i]

\* the third attempt was sent with the limit shrunk by 10 before the
\* second and with the budget of that limit
C25_Witness ==
    /\ Len(log) = 3
    /\ log[1].limit = word_limit
    /\ log[3].limit = word_limit - 10
    /\ log[3].prompt.target_limit = word_limit - 10
    /\ log[3].prompt.budgets[1].max = ((word_limit - 10) * 20) \div 100
    /\ log[3].prompt.budgets[2].max = ((word_limit - 10) * 15) \div 100

\* C26: a file name without identifier gives the empty application_id and
\* a warning, the lookup then gives None without raising and the run
\* reaches the item loop; with no flagged item the run is not aborted, the
\* service is never called and the run ends delivering the empty text.
C26_AbsentInputsDoNotAbort ==
    /\ (pc # "parse" /\ parse_application_id(filename).raised) =>
          /\ application_id = <<>>
          /\ notices[1] = "filename_unparseable"
    /\ (pc \notin {"parse", "lookup"} /\ application_id = <<>>) =>
          /\ matched_row = None
          /\ personal_history = NotProvided
          /\ ~(error /\ index = 0 /\ calls = 0)
          /\ pc = "done" => index = Len(items)
    /\ (pc \notin {"parse", "lookup"} /\ items = <<>>) =>
          /\ pc \in {"items", "done"}
          /\ error = FALSE
          /\ calls = 0
          /\ pc = "done" => delivered = <<>>

\* C27 as stated: in the prompt of every attempt a habit has a questionnaire
\* line or a status other than "N/A" in the subject data only if its status
\* is the affirmative one.
C27_OnlyAffirmativeHabitsInPrompt ==
    \A k \in DOMAIN log :
        \A h \in {"smoking", "drinking", "betel_nut"} :
            ( \/ \E i \in DOMAIN log[k].prompt.habit_instruction :
                     log[k].prompt.habit_instruction[i].habit = h
              \/ \E i \in DOMAIN log[k].prompt.habit_values :
                     /\ log[k].prompt.habit_values[i].habit = h
                     /\ log[k].prompt.habit_values[i].value # "N/A" )
            => lifestyle_habits[h] = "yes"

\* C27: the subject data of every prompt, first attempt and retries alike,
\* lists smoking, drinking and betel nut in this order with their status,
\* "N/A" for an empty one, and has a questionnaire line with the status for
\* exactly the habits whose status is not empty, negative ones included.
C27_KnownHabitsInPrompt ==
    \A k \in DOMAIN log :
        /\ Len(log[k].prompt.habit_values) = 3
        /\ \A i \in 1..3 :
             LET h == <<"smoking", "drinking", "betel_nut">>[i]
             IN  /\ log[k].prompt.habit_values[i].habit = h
                 /\ log[k].prompt.habit_values[i].value =
                       IF lifestyle_habits[h] = "" THEN "N/A" ELSE lifestyle_habits[h]
                 /\ lifestyle_habits[h] # "" <=>
                       \E j \in DOMAIN log[k].prompt.habit_instruction :
                           log[k].prompt.habit_instruction[j] =
                              [habit |-> h, status |-> lifestyle_habits[h]]
        /\ Len(log[k].prompt.habit_instruction)
              = Cardinality({h \in {"smoking", "drinking", "betel_nut"} : lifestyle_habits[h] # ""})
        /\ \A i, j \in DOMAIN log[k].prompt.habit_instruction :
              (i < j /\ log[k].prompt.habit_instruction[j].habit = "smoking") => FALSE
        /\ \A i, j \in DOMAIN log[k].prompt.habit_instruction :
              (i < j /\ log[k].prompt.habit_instruction[i].habit = "betel_nut") => FALSE

\* the prompt of a retry names the negative smoking status next to the
\* affirmative betel nut status, and drinking as "N/A"
C27_Witness ==
    /\ Len(log) >= 2
    /\ log[2].prompt.retry.present
    /\ log[2].prompt.habit_instruction
          = <<[habit |-> "smoking", status |-> "no"], [habit |-> "betel_nut", status |-> "yes"]>>
    /\ log[2].prompt.habit_values[2] = [habit |-> "drinking", value |-> "N/A"]

====
